---- MODULE Spec2Model ----
(***************************************************************************)
(* Geocoin Carrier (src/src/main.ts, final revision at lines 361-747, and  *)
(* src/src/board.ts): the session controller, the memento store of cache   *)
(* contents, the rendered caches and the persisted snapshot.               *)
(*                                                                         *)
(* Units.  Coordinates are integers counted in half tiles, so the tile     *)
(* width TILE_DEGREES (1e-4 degrees in the source) is 2 units and a point  *)
(* can lie strictly inside a tile.  Coordinates are taken relative to      *)
(* OAKES_CLASSROOM, which lies on a tile corner in the source too          *)
(* (36.9894 / 1e-4 and -122.0627 / 1e-4 are whole numbers).  A luck value  *)
(* in [0,1) is an integer number of thousandths.                           *)
(*                                                                         *)
(* Strings.  The cell key "i:j" built by cellToString is modelled by the   *)
(* pair <<i, j>> of the two numbers it spells; a cell is the record        *)
(* [i |-> .., j |-> ..].  A JavaScript Map is the sequence of its entries  *)
(* in insertion order.  The JSON text kept in localStorage is modelled by  *)
(* the tree it spells: tuples for arrays, records for objects.             *)
(***************************************************************************)
EXTENDS Integers, Sequences, FiniteSets, TLC

\* ---------------------------------------------------------------- bounds
\* Largest |lat| (in half tiles) the player is moved to.
MaxLat == 3
\* Largest |lng| (in half tiles) the player is moved to.
MaxLng == 1
\* Longest movement history the model lets grow (moves are disabled beyond).
MaxHistory == 3
\* How many neighbouring doubles of a luck value of interest are tried.
MaxUlps == 20
\* Board.tileVisibilityRadius; 8 in the source (main.ts:381), scaled down.
NEIGHBORHOOD_SIZE == 1

\* ------------------------------------------------------ program constants
\* main.ts:380, 1e-4 degrees = 2 half tiles.
TILE_DEGREES == 2
\* main.ts:382, 0.1 in thousandths.
CACHE_SPAWN_PROBABILITY == 100
\* Thousandths per unit of luck: luck() returns a float in [0,1).
LuckScale == 1000

\* main.ts:377 leaflet.latLng(36.9894, -122.0627), the origin of the model's
\* coordinates.
OAKES_CLASSROOM == [lat |-> 0, lng |-> 0]

VARIABLES
    playerWallet,        \* main.ts:386  Coin[]
    cacheStates,         \* main.ts:389  Map<string, Coin[]>: sequence of entries
    activeCacheRects,    \* main.ts:390  rendered cells; each rectangle carries the
                         \* live cache object its popup closure captured
    playerMarker,        \* main.ts:440  playerMarker.getLatLng()
    movementHistory,     \* main.ts:445
    localStorage,        \* item "geocoinCarrierGameState": <<>> when absent,
                         \* else <<snapshot>>
    uncaught,            \* TRUE when the last handler ended with an exception
                         \* nothing caught
    lastOp,              \* history: the handler that ran last
    coinsSpawned,        \* history: coins created by spawnCache in this session
    spawnLog,            \* history: key -> what spawnCache has created for it:
                         \* the coins, and how many caches the store knew
                         \* before (rank); kept from one fresh session to the
                         \* next, started anew by a reload
    evictedCoins,        \* history: key -> live coins when its rendering was removed
    restoredKeys,        \* history: keys restoreCache rendered in the last handler
    knownCells,          \* board.ts:27  Board.knownCells: key -> cell instance
    allocated,           \* number of cell objects knownCells has been given
    handedOut,           \* history: (pair, instance) of every cell a Board
                         \* method has returned
    boardReturn,         \* history: the last Board call and the cells it returned
    spawnTrial,          \* history: the last luck value put to the spawn test,
                         \* as a double, and what the test made of it
    boardCalls           \* history: the members of board the last handler called

vars == <<playerWallet, cacheStates, activeCacheRects, playerMarker,
          movementHistory, localStorage, uncaught, lastOp,
          coinsSpawned, spawnLog, evictedCoins, restoredKeys,
          knownCells, allocated, handedOut, boardReturn, spawnTrial,
          boardCalls>>

\* The session reads a cell only through its i and j (cellToString, main.ts:
\* 691-694): its handlers are modelled on cell values, and the instances the
\* board hands out are modelled by the board's own actions.
boardVars == <<knownCells, allocated, handedOut, boardReturn>>

\* ------------------------------------------------------------- utilities
Range(s) == {s[n] : n \in DOMAIN s}

\* TRUE, once v has been computed: a loop tests it on the state an iteration
\* leaves, so that the state is computed per iteration and not when the loop
\* has ended.
Evaluated(v) == v = v

\* Map<K,V> as a sequence of entries [k |-> key, v |-> value], insertion order.
MapHas(m, key) == \E n \in DOMAIN m : m[n].k = key

MapGet(m, key) == m[CHOOSE n \in DOMAIN m : m[n].k = key].v

MapSet(m, key, val) ==
    IF MapHas(m, key)
    THEN [n \in DOMAIN m |-> IF m[n].k = key THEN [k |-> key, v |-> val] ELSE m[n]]
    ELSE Append(m, [k |-> key, v |-> val])

MapKeys(m) == {m[n].k : n \in DOMAIN m}

\* activeCacheRects.set / delete on a function whose domain is the rendered keys.
RectSet(rects, key, cache) ==
    [x \in (DOMAIN rects) \cup {key} |-> IF x = key THEN cache ELSE rects[x]]

RectDelete(rects, keys) == [x \in (DOMAIN rects) \ keys |-> rects[x]]

NoRects == [x \in {} |-> 0]

\* ------------------------------------------------------------------ luck
\* luck.ts is not part of the sources: an opaque deterministic function of the
\* key.  The table gives the cells near the start their values, in
\* thousandths; every other cell is unlucky.
luck(key) ==
    CASE key = <<0, 0>>   -> 25     \* spawns, 2 coins
      [] key = <<-2, -1>> -> 5      \* spawns, 0 coins
      [] key = <<1, 0>>   -> 100    \* exactly the threshold: no spawn
      [] OTHER            -> 500

\* ------------------------------------------------------------- board.ts
Coin(spawnLocation, serial) == [spawnLocation |-> spawnLocation, serial |-> serial]

getCanonicalCell(cell) == [i |-> cell.i, j |-> cell.j]

getCellForPoint(point) ==
    getCanonicalCell([i |-> point.lat \div TILE_DEGREES,
                      j |-> point.lng \div TILE_DEGREES])

getCellsNearPoint(point) ==
    LET originCell == getCellForPoint(point)
        r == NEIGHBORHOOD_SIZE
        side == 2 * r + 1
    IN  [n \in 1..(side * side) |->
            getCanonicalCell([i |-> originCell.i + ((n - 1) \div side) - r,
                              j |-> originCell.j + ((n - 1) % side) - r])]

createNewCache(cell, numCoins) ==
    [coins |-> [n \in 1..numCoins |-> Coin(cell, n - 1)],
     serialNumber |-> numCoins,
     location |-> cell]

\* board.ts:44-94, the methods a Board provides to its users.
BoardMethods ==
    {"getCellForPoint", "getCellBounds", "getCellsNearPoint", "createNewCache"}

\* populateMap calls board.getCellAtKey (main.ts:570), which board.ts does not
\* define: the key is turned back into the cell it names.
getCellAtKey(cellKey) == getCanonicalCell([i |-> cellKey[1], j |-> cellKey[2]])

\* -------------------------------------------------------------- main.ts
cellToString(cell) == <<cell.i, cell.j>>

cellLuck(cell) == luck(cellToString(cell))


serializeCoin(coin) == <<coin.spawnLocation.i, coin.spawnLocation.j, coin.serial>>

\* The state a visibility refresh works on: the store, the rendered caches and
\* the history variables it feeds.
RefreshState(store, rects, spawned, log, evicted) ==
    [cacheStates |-> store, rects |-> rects, spawned |-> spawned,
     log |-> log, evicted |-> evicted, restored |-> {}, calls |-> {}]

\* main.ts:593-602; a Set<string> keeps its elements in insertion order
SetAdd(set, key) ==
    IF \E n \in DOMAIN set : set[n] = key THEN set ELSE Append(set, key)

RECURSIVE SetFromCells(_, _, _)
SetFromCells(set, cells, n) ==
    IF n > Len(cells) THEN set
    ELSE LET next == SetAdd(set, cellToString(cells[n]))
         IN  IF Evaluated(next)
             THEN SetFromCells(next, cells, n + 1)
             ELSE set

getVisibleCells(location) ==
    SetFromCells(<<>>, getCellsNearPoint(location), 1)

\* getVisibleCells (main.ts:593-602) depends on the location only: its value
\* for every location the player can stand on.
visibleCellsAt ==
    [p \in {[lat |-> a, lng |-> b] : a \in (-MaxLat)..MaxLat, b \in (-MaxLng)..MaxLng}
        |-> getVisibleCells(p)]

\* Mutant of spawnCache: the number of coins grows with the number of caches
\* the store already knows.
spawnCacheCountsStore(st, cellToSpawn) ==
    LET pointValue == (cellLuck(cellToSpawn) * 100) \div LuckScale
                      + Len(st.cacheStates)
        cache == createNewCache(cellToSpawn, pointValue)
        key == cellToString(cellToSpawn)
    IN  [st EXCEPT
            !.cacheStates = MapSet(@, key, cache.coins),
            !.rects = RectSet(@, key, cache),
            !.spawned = @ + Len(cache.coins),
            !.calls = @ \cup {"getCellBounds", "createNewCache"},
            !.log = RectSet(@, key, (IF key \in DOMAIN @ THEN @[key] ELSE {})
                                        \cup {[coins |-> cache.coins,
                                               rank |-> Len(st.cacheStates)]})]

\* main.ts:614-626
spawnCache(st, cellToSpawn) ==
    LET pointValue == (cellLuck(cellToSpawn) * 100) \div LuckScale
        cache == createNewCache(cellToSpawn, pointValue)
        key == cellToString(cellToSpawn)
    IN  [st EXCEPT
            !.cacheStates = MapSet(@, key, cache.coins),
            !.rects = RectSet(@, key, cache),
            !.spawned = @ + Len(cache.coins),
            !.calls = @ \cup {"getCellBounds", "createNewCache"},
            !.log = RectSet(@, key, (IF key \in DOMAIN @ THEN @[key] ELSE {})
                                        \cup {[coins |-> cache.coins,
                                               rank |-> Len(st.cacheStates)]})]

\* Mutant of restoreCache: the returning cache is built like a new one, with
\* the coins its cell spawns, instead of from the store.
restoreCacheRespawns(st, cell) ==
    LET key == cellToString(cell)
        cache == createNewCache(cell, (cellLuck(cell) * 100) \div LuckScale)
    IN  [st EXCEPT
            !.rects = RectSet(@, key, cache),
            !.restored = @ \cup {key},
            !.calls = @ \cup {"getCellBounds"},
            !.evicted = RectDelete(@, {key})]

\* main.ts:628-642
restoreCache(st, cell) ==
    LET key == cellToString(cell)
        savedCoins == MapGet(st.cacheStates, key)
        cache == [coins |-> savedCoins,
                  serialNumber |-> Len(savedCoins),
                  location |-> cell]
    IN  [st EXCEPT
            !.rects = RectSet(@, key, cache),
            !.restored = @ \cup {key},
            !.calls = @ \cup {"getCellBounds"},
            !.evicted = RectDelete(@, {key})]

\* spawnCacheIfNeeded that takes an empty store entry for no entry.
spawnCacheIfNeededWhenEmpty(st, cell, cellKey) ==
    IF ~MapHas(st.cacheStates, cellKey) \/ MapGet(st.cacheStates, cellKey) = <<>>
    THEN IF cellLuck(cell) < CACHE_SPAWN_PROBABILITY
         THEN spawnCache(st, cell)
         ELSE st
    ELSE st

\* Mutant of spawnCacheIfNeeded: a cell whose luck equals the threshold spawns.
spawnCacheIfNeededAtThreshold(st, cell, cellKey) ==
    IF ~MapHas(st.cacheStates, cellKey)
    THEN IF cellLuck(cell) <= CACHE_SPAWN_PROBABILITY
         THEN spawnCache(st, cell)
         ELSE st
    ELSE st

\* main.ts:577-585
spawnCacheIfNeeded(st, cell, cellKey) ==
    IF ~MapHas(st.cacheStates, cellKey)
    THEN IF cellLuck(cell) < CACHE_SPAWN_PROBABILITY
         THEN spawnCache(st, cell)
         ELSE st
    ELSE st

\* main.ts:587-592
restoreCacheIfNeeded(st, cell, cellKey) ==
    IF MapHas(st.cacheStates, cellKey) /\ cellKey \notin DOMAIN st.rects
    THEN restoreCache(st, cell)
    ELSE st

\* removeInactiveCaches that also empties the store entry of what it removes.
removeInactiveCachesWritesStore(st, visibleCells) ==
    LET visible == Range(visibleCells)
        gone == {key \in DOMAIN st.rects : key \notin visible}
    IN  [st EXCEPT
            !.rects = RectDelete(@, gone),
            !.cacheStates = [n \in DOMAIN @ |->
                                IF @[n].k \in gone THEN [k |-> @[n].k, v |-> <<>>]
                                ELSE @[n]],
            !.evicted = [key \in (DOMAIN @) \cup gone |->
                            IF key \in gone THEN st.rects[key].coins ELSE @[key]]]

\* removeInactiveCaches that removes nothing.
removeInactiveCachesKeepsAll(st, visibleCells) == st

\* main.ts:604-612
removeInactiveCaches(st, visibleCells) ==
    LET visible == Range(visibleCells)
        gone == {key \in DOMAIN st.rects : key \notin visible}
    IN  [st EXCEPT
            !.rects = RectDelete(@, gone),
            !.evicted = [key \in (DOMAIN @) \cup gone |->
                            IF key \in gone THEN st.rects[key].coins ELSE @[key]]]

\* main.ts:569-573, the loop body
PopulateCell(st, cellKey) ==
    LET cell == getCellAtKey(cellKey)
        called == IF "getCellAtKey" \in st.calls THEN st
                  ELSE [st EXCEPT !.calls = @ \cup {"getCellAtKey"}]
        spawned == spawnCacheIfNeeded(called, cell, cellKey)
    IN  restoreCacheIfNeeded(spawned, cell, cellKey)

\* forEach of populateMap (main.ts:568-573) over the keys from..to, in the
\* order of the list: the first half, then the second half from its result.
RECURSIVE PopulateLoop(_, _, _, _)
PopulateLoop(st, visibleCells, from, to) ==
    IF from > to THEN st
    ELSE IF from = to THEN PopulateCell(st, visibleCells[from])
    ELSE LET middle == (from + to) \div 2
             first == PopulateLoop(st, visibleCells, from, middle)
         IN  IF Evaluated(first)
             THEN PopulateLoop(first, visibleCells, middle + 1, to)
             ELSE st

\* main.ts:566-576
populateMap(st, location) ==
    LET visibleCells == visibleCellsAt[location]
        called == [st EXCEPT !.calls = @ \cup {"getCellsNearPoint"}]
        populated == PopulateLoop(called, visibleCells, 1, Len(visibleCells))
    IN  removeInactiveCaches(populated, visibleCells)

\* Mutant of coinToJSON: the serial of a coin is not written.
coinToJSONLosesSerial(coin) ==
    [spawnLocation |-> [i |-> coin.spawnLocation.i, j |-> coin.spawnLocation.j],
     serial |-> 0]

\* main.ts:701-711: the snapshot JSON.stringify writes
coinToJSON(coin) ==
    [spawnLocation |-> [i |-> coin.spawnLocation.i, j |-> coin.spawnLocation.j],
     serial |-> coin.serial]

saveGameState(wallet, store, history) ==
    [playerWallet |-> [n \in DOMAIN wallet |-> coinToJSON(wallet[n])],
     cacheStates |-> [n \in DOMAIN store |->
                        <<store[n].k,
                          [c \in DOMAIN store[n].v |-> coinToJSON(store[n].v[c])]>>],
     movementHistory |-> [n \in DOMAIN history |->
                            [lat |-> history[n].lat, lng |-> history[n].lng]]]

\* main.ts:710 localStorage.setItem
setItem(value) == <<value>>

\* A load that clears cacheStates and sets none of the stored entries.
MapFromEntriesSetsNone(entries, n) == <<>>

\* main.ts:719-722: cacheStates.clear(), then one set per stored entry
RECURSIVE MapFromEntries(_, _)
MapFromEntries(entries, n) ==
    IF n = 0 THEN <<>>
    ELSE LET before == MapFromEntries(entries, n - 1)
         IN  MapSet(before, entries[n][1], entries[n][2])

\* An item text that is not JSON: JSON.parse (main.ts:717) throws on it.
NotJSON == [text |-> "not json"]

\* An item text that is JSON, of an object that has a wallet and nothing else.
WalletOnly == [playerWallet |-> <<Coin([i |-> 0, j |-> 0], 0)>>]

\* JSON.parse succeeds on the texts that spell a tree.
IsJSON(text) == text /= NotJSON

\* main.ts:714-744 on a session's fresh in-memory state: the wallet, store,
\* history, marker and refreshed map the session has once the module has run
\* (log is the spawn log the session starts its history variables from).
\* threw: an exception ended the function where it was raised, at JSON.parse
\* (main.ts:717) or at the forEach of a cacheStates that is undefined
\* (main.ts:720), after the wallet was assigned (main.ts:718).
loadGameState(savedState, log) ==
    LET defaults == [playerWallet |-> <<>>,
                     movementHistory |-> <<OAKES_CLASSROOM>>,
                     playerMarker |-> OAKES_CLASSROOM,
                     st |-> RefreshState(<<>>, NoRects, 0, log, NoRects),
                     loaded |-> FALSE,
                     threw |-> FALSE]
    IN  IF savedState = <<>> THEN defaults
        ELSE IF ~IsJSON(savedState[1]) THEN [defaults EXCEPT !.threw = TRUE]
        ELSE IF "cacheStates" \notin DOMAIN savedState[1]
        THEN [defaults EXCEPT !.playerWallet = savedState[1].playerWallet,
                              !.threw = TRUE]
        ELSE LET gameState == savedState[1]
                 store == MapFromEntries(gameState.cacheStates,
                                         Len(gameState.cacheStates))
                 history == [n \in DOMAIN gameState.movementHistory |->
                                [lat |-> gameState.movementHistory[n].lat,
                                 lng |-> gameState.movementHistory[n].lng]]
                 marker == IF Len(history) > 0 THEN history[Len(history)]
                           ELSE OAKES_CLASSROOM
                 start == RefreshState(store, NoRects, 0, log, NoRects)
                 st == populateMap(start, marker)
             IN  [playerWallet |-> gameState.playerWallet,
                  movementHistory |-> history,
                  playerMarker |-> marker,
                  st |-> st,
                  loaded |-> TRUE,
                  threw |-> FALSE]


\* ------------------------------------------------------------ the session
\* The positions the model moves the player to.
InWorld(point) ==
    /\ point.lat \in -MaxLat..MaxLat
    /\ point.lng \in -MaxLng..MaxLng

\* The sample the position sensor delivers: inside a tile, at negative
\* coordinates, two tiles from the start.
SensorPoints == {[lat |-> -3, lng |-> -1]}

\* main.ts:470-481, the four move buttons
MoveDeltas ==
    {<<TILE_DEGREES, 0>>, <<-TILE_DEGREES, 0>>,
     <<0, -TILE_DEGREES>>, <<0, TILE_DEGREES>>}

\* The refresh every handler ends with, on the session's current variables.
Refresh(store, rects, evicted, location) ==
    LET start == RefreshState(store, rects, coinsSpawned, spawnLog, evicted)
    IN  populateMap(start, location)

\* The variables a refresh writes.
RefreshVars(st) ==
    /\ cacheStates' = st.cacheStates
    /\ activeCacheRects' = st.rects
    /\ coinsSpawned' = st.spawned
    /\ spawnLog' = st.log
    /\ evictedCoins' = st.evicted
    /\ restoredKeys' = st.restored
    /\ boardCalls' = st.calls

\* The module's top-level statements with nothing in localStorage
\* (main.ts:386-390, 440-445, 484, 746).
Init ==
    /\ playerWallet = <<>>
    /\ cacheStates = <<>>
    /\ activeCacheRects = NoRects
    /\ playerMarker = OAKES_CLASSROOM
    /\ movementHistory = <<OAKES_CLASSROOM>>
    /\ localStorage = <<>>
    /\ uncaught = FALSE
    /\ lastOp = "init"
    /\ coinsSpawned = 0
    /\ spawnLog = NoRects
    /\ evictedCoins = NoRects
    /\ restoredKeys = {}
    /\ knownCells = NoRects
    /\ allocated = 0
    /\ handedOut = {}
    /\ boardReturn = [op |-> "new", point |-> OAKES_CLASSROOM, cells |-> <<>>]
    /\ spawnTrial = [tried |-> FALSE]
    /\ boardCalls = {}

\* movePlayer that does not push the new location onto the history.
movePlayerNoPush(deltaLat, deltaLng) ==
    LET location == [lat |-> playerMarker.lat + deltaLat,
                     lng |-> playerMarker.lng + deltaLng]
    IN  /\ InWorld(location)
        /\ Len(movementHistory) < MaxHistory
        /\ playerMarker' = location
        /\ movementHistory' = movementHistory
        /\ \E st \in {Refresh(cacheStates, activeCacheRects, evictedCoins,
                                location)} : RefreshVars(st)
        /\ lastOp' = "move"
        /\ uncaught' = FALSE
        /\ UNCHANGED boardVars
        /\ UNCHANGED spawnTrial
        /\ UNCHANGED <<playerWallet, localStorage>>

\* main.ts:451-467
movePlayer(deltaLat, deltaLng) ==
    LET location == [lat |-> playerMarker.lat + deltaLat,
                     lng |-> playerMarker.lng + deltaLng]
    IN  /\ InWorld(location)
        /\ Len(movementHistory) < MaxHistory
        /\ playerMarker' = location
        /\ movementHistory' = Append(movementHistory, location)
        /\ \E st \in {Refresh(cacheStates, activeCacheRects, evictedCoins,
                                location)} : RefreshVars(st)
        /\ lastOp' = "move"
        /\ uncaught' = FALSE
        /\ UNCHANGED boardVars
        /\ UNCHANGED spawnTrial
        /\ UNCHANGED <<playerWallet, localStorage>>

\* main.ts:491-509, the watchPosition success callback.  The callback is
\* registered by the auto-update button (main.ts:486-525), whose click changes
\* nothing else of the session; a sample can follow any handler.
watchPosition(newLocation) ==
    /\ Len(movementHistory) < MaxHistory
    /\ playerMarker' = newLocation
    /\ movementHistory' = Append(movementHistory, newLocation)
    /\ \E st \in {Refresh(cacheStates, activeCacheRects, evictedCoins,
                            newLocation)} : RefreshVars(st)
    /\ lastOp' = "sensor"
    /\ uncaught' = FALSE
    /\ UNCHANGED boardVars
    /\ UNCHANGED spawnTrial
    /\ UNCHANGED <<playerWallet, localStorage>>

\* Mutant of collect: the store is not written after the coin is taken.
collectNoStoreWrite(cellKey) ==
    LET cache == activeCacheRects[cellKey]
        coin == cache.coins[Len(cache.coins)]
        coins == SubSeq(cache.coins, 1, Len(cache.coins) - 1)
        wallet == Append(playerWallet, coin)
    IN  IF Len(cache.coins) > 0
        THEN /\ activeCacheRects' =
                    [activeCacheRects EXCEPT ![cellKey].coins = coins]
             /\ playerWallet' = wallet
             /\ localStorage' =
                    setItem(saveGameState(wallet, cacheStates, movementHistory))
             /\ lastOp' = "collect"
             /\ restoredKeys' = {}
             /\ uncaught' = FALSE
             /\ UNCHANGED boardVars
             /\ UNCHANGED spawnTrial
             /\ boardCalls' = {}
             /\ UNCHANGED <<cacheStates, playerMarker, movementHistory,
                            coinsSpawned, spawnLog, evictedCoins>>
        ELSE UNCHANGED vars

\* Mutant of collect: the snapshot is written on an empty cache too.
collectSavesWhenEmpty(cellKey) ==
    LET cache == activeCacheRects[cellKey]
        coin == cache.coins[Len(cache.coins)]
        coins == SubSeq(cache.coins, 1, Len(cache.coins) - 1)
        wallet == Append(playerWallet, coin)
        store == MapSet(cacheStates, cellToString(cache.location), coins)
    IN  IF Len(cache.coins) > 0
        THEN /\ activeCacheRects' =
                    [activeCacheRects EXCEPT ![cellKey].coins = coins]
             /\ playerWallet' = wallet
             /\ cacheStates' = store
             /\ localStorage' = setItem(saveGameState(wallet, store, movementHistory))
             /\ lastOp' = "collect"
             /\ restoredKeys' = {}
             /\ uncaught' = FALSE
             /\ UNCHANGED boardVars
             /\ UNCHANGED spawnTrial
             /\ boardCalls' = {}
             /\ UNCHANGED <<playerMarker, movementHistory, coinsSpawned,
                            spawnLog, evictedCoins>>
        ELSE /\ localStorage' =
                    setItem(saveGameState(playerWallet, cacheStates, movementHistory))
             /\ UNCHANGED <<playerWallet, cacheStates, activeCacheRects,
                            playerMarker, movementHistory, uncaught, lastOp,
                            coinsSpawned, spawnLog, evictedCoins, restoredKeys>>
             /\ UNCHANGED boardVars
             /\ UNCHANGED spawnTrial
             /\ boardCalls' = {}

\* main.ts:654-666, the collect button of the popup of a rendered cache
collect(cellKey) ==
    LET cache == activeCacheRects[cellKey]
        coin == cache.coins[Len(cache.coins)]
        coins == SubSeq(cache.coins, 1, Len(cache.coins) - 1)
        wallet == Append(playerWallet, coin)
        store == MapSet(cacheStates, cellToString(cache.location), coins)
    IN  IF Len(cache.coins) > 0
        THEN /\ activeCacheRects' =
                    [activeCacheRects EXCEPT ![cellKey].coins = coins]
             /\ playerWallet' = wallet
             /\ cacheStates' = store
             /\ localStorage' = setItem(saveGameState(wallet, store, movementHistory))
             /\ lastOp' = "collect"
             /\ restoredKeys' = {}
             /\ uncaught' = FALSE
             /\ UNCHANGED boardVars
             /\ UNCHANGED spawnTrial
             /\ boardCalls' = {}
             /\ UNCHANGED <<playerMarker, movementHistory, coinsSpawned,
                            spawnLog, evictedCoins>>
        ELSE UNCHANGED vars

\* Mutant of deposit: the coin is pushed onto the cache but stays in the wallet.
depositKeepsWallet(cellKey) ==
    LET cache == activeCacheRects[cellKey]
        coin == playerWallet[Len(playerWallet)]
        coins == Append(cache.coins, coin)
        store == MapSet(cacheStates, cellToString(cache.location), coins)
    IN  IF Len(playerWallet) > 0 /\ Len(cache.coins) < 2
        THEN /\ activeCacheRects' =
                    [activeCacheRects EXCEPT ![cellKey].coins = coins]
             /\ cacheStates' = store
             /\ localStorage' =
                    setItem(saveGameState(playerWallet, store, movementHistory))
             /\ lastOp' = "deposit"
             /\ restoredKeys' = {}
             /\ uncaught' = FALSE
             /\ UNCHANGED boardVars
             /\ UNCHANGED spawnTrial
             /\ boardCalls' = {}
             /\ UNCHANGED <<playerWallet, playerMarker, movementHistory,
                            coinsSpawned, spawnLog, evictedCoins>>
        ELSE UNCHANGED vars

\* deposit that takes the first coin of the wallet instead of the last.
depositTakesFirst(cellKey) ==
    LET cache == activeCacheRects[cellKey]
        coin == playerWallet[1]
        wallet == SubSeq(playerWallet, 2, Len(playerWallet))
        coins == Append(cache.coins, coin)
        store == MapSet(cacheStates, cellToString(cache.location), coins)
    IN  IF Len(playerWallet) > 0
        THEN /\ activeCacheRects' =
                    [activeCacheRects EXCEPT ![cellKey].coins = coins]
             /\ playerWallet' = wallet
             /\ cacheStates' = store
             /\ localStorage' = setItem(saveGameState(wallet, store, movementHistory))
             /\ lastOp' = "deposit"
             /\ restoredKeys' = {}
             /\ uncaught' = FALSE
             /\ UNCHANGED boardVars
             /\ UNCHANGED spawnTrial
             /\ boardCalls' = {}
             /\ UNCHANGED <<playerMarker, movementHistory, coinsSpawned,
                            spawnLog, evictedCoins>>
        ELSE UNCHANGED vars

\* main.ts:668-682, the deposit button of the popup of a rendered cache
deposit(cellKey) ==
    LET cache == activeCacheRects[cellKey]
        coin == playerWallet[Len(playerWallet)]
        wallet == SubSeq(playerWallet, 1, Len(playerWallet) - 1)
        coins == Append(cache.coins, coin)
        store == MapSet(cacheStates, cellToString(cache.location), coins)
    IN  IF Len(playerWallet) > 0
        THEN /\ activeCacheRects' =
                    [activeCacheRects EXCEPT ![cellKey].coins = coins]
             /\ playerWallet' = wallet
             /\ cacheStates' = store
             /\ localStorage' = setItem(saveGameState(wallet, store, movementHistory))
             /\ lastOp' = "deposit"
             /\ restoredKeys' = {}
             /\ uncaught' = FALSE
             /\ UNCHANGED boardVars
             /\ UNCHANGED spawnTrial
             /\ boardCalls' = {}
             /\ UNCHANGED <<playerMarker, movementHistory, coinsSpawned,
                            spawnLog, evictedCoins>>
        ELSE UNCHANGED vars

\* main.ts:536-538: every store entry is set to a copy of itself
RECURSIVE ReturnCoins(_, _)
ReturnCoins(store, n) ==
    IF n = 0 THEN store
    ELSE LET before == ReturnCoins(store, n - 1)
         IN  MapSet(before, before[n].k, before[n].v)

\* Mutant of resetGame: the movement history is not truncated.
resetGameKeepsHistory(confirmation) ==
    IF confirmation = "yes"
    THEN LET wallet == <<>>
             store == ReturnCoins(cacheStates, Len(cacheStates))
             evicted == [key \in (DOMAIN evictedCoins) \cup (DOMAIN activeCacheRects) |->
                            IF key \in DOMAIN activeCacheRects
                            THEN activeCacheRects[key].coins
                            ELSE evictedCoins[key]]
         IN  /\ playerWallet' = wallet
             /\ playerMarker' = OAKES_CLASSROOM
             /\ localStorage' = setItem(saveGameState(wallet, store, movementHistory))
             /\ \E st \in {Refresh(store, NoRects, evicted, OAKES_CLASSROOM)} :
                    RefreshVars(st)
             /\ lastOp' = "reset"
             /\ uncaught' = FALSE
             /\ UNCHANGED boardVars
             /\ UNCHANGED spawnTrial
             /\ UNCHANGED movementHistory
    ELSE UNCHANGED vars

\* main.ts:527-564, the reset button; confirmation is the prompt's answer
resetGame(confirmation) ==
    IF confirmation = "yes"
    THEN LET wallet == <<>>
             store == ReturnCoins(cacheStates, Len(cacheStates))
             evicted == [key \in (DOMAIN evictedCoins) \cup (DOMAIN activeCacheRects) |->
                            IF key \in DOMAIN activeCacheRects
                            THEN activeCacheRects[key].coins
                            ELSE evictedCoins[key]]
             history == SubSeq(movementHistory, 1, 1)
         IN  /\ playerWallet' = wallet
             /\ movementHistory' = history
             /\ playerMarker' = OAKES_CLASSROOM
             /\ localStorage' = setItem(saveGameState(wallet, store, history))
             /\ \E st \in {Refresh(store, NoRects, evicted, OAKES_CLASSROOM)} :
                    RefreshVars(st)
             /\ lastOp' = "reset"
             /\ uncaught' = FALSE
             /\ UNCHANGED boardVars
             /\ UNCHANGED spawnTrial
    ELSE UNCHANGED vars

\* The page is loaded again: the module's top-level statements run on what
\* localStorage holds (main.ts:386-390, 440-445, 484, 714-746).
Reload ==
    \E s \in {loadGameState(localStorage, NoRects)} :
        /\ playerWallet' = s.playerWallet
        /\ movementHistory' = s.movementHistory
        /\ playerMarker' = s.playerMarker
        /\ RefreshVars(s.st)
        /\ lastOp' = "load"
        /\ uncaught' = s.threw
        /\ UNCHANGED boardVars
        /\ UNCHANGED spawnTrial
        /\ UNCHANGED localStorage

SessionNext ==
    \/ \E d \in MoveDeltas : movePlayer(d[1], d[2])
    \/ \E p \in SensorPoints : watchPosition(p)
    \/ \E cellKey \in DOMAIN activeCacheRects : collect(cellKey)
    \/ \E cellKey \in DOMAIN activeCacheRects : deposit(cellKey)
    \/ \E confirmation \in {"yes", "no"} : resetGame(confirmation)

\* One session of the page.
Next == SessionNext

Spec == Init /\ [][Next]_vars

\* Sessions that end and start again on what localStorage holds.
NextReload ==
    \/ SessionNext
    \/ Reload

SpecReload == Init /\ [][NextReload]_vars


\* A session that starts with nothing in localStorage: the module's top-level
\* statements run and loadGameState finds no item.
FreshSession ==
    \E s \in {loadGameState(<<>>, spawnLog)} :
        /\ playerWallet' = s.playerWallet
        /\ movementHistory' = s.movementHistory
        /\ playerMarker' = s.playerMarker
        /\ RefreshVars(s.st)
        /\ localStorage' = <<>>
        /\ uncaught' = s.threw
        /\ UNCHANGED boardVars
        /\ UNCHANGED spawnTrial
        /\ lastOp' = "init"

\* Movement, collect and deposit only: no reset, no reload.
PlayNext ==
    \/ \E d \in MoveDeltas : movePlayer(d[1], d[2])
    \/ \E p \in SensorPoints : watchPosition(p)
    \/ \E cellKey \in DOMAIN activeCacheRects : collect(cellKey)
    \/ \E cellKey \in DOMAIN activeCacheRects : deposit(cellKey)

SpecPlay == Init /\ [][PlayNext]_vars

\* Fresh sessions, one after the other, each driven by movement, collect and
\* deposit.
FreshNext ==
    \/ PlayNext
    \/ FreshSession

SpecFresh == Init /\ [][FreshNext]_vars

\* The item values that are present and are not a snapshot.
MalformedItems == {NotJSON, WalletOnly}

\* The page is loaded while the item holds a value that saveGameState did not
\* write (main.ts:715-746).
LoadStored(value) ==
    \E s \in {loadGameState(<<value>>, NoRects)} :
        /\ playerWallet' = s.playerWallet
        /\ movementHistory' = s.movementHistory
        /\ playerMarker' = s.playerMarker
        /\ RefreshVars(s.st)
        /\ localStorage' = <<value>>
        /\ uncaught' = s.threw
        /\ UNCHANGED boardVars
        /\ UNCHANGED spawnTrial
        /\ lastOp' = "load"

\* Sessions that start on a malformed item and go on with movement, collect
\* and deposit.
StoredNext ==
    \/ PlayNext
    \/ \E value \in MalformedItems : LoadStored(value)

SpecStored == Init /\ [][StoredNext]_vars

\* ------------------------------------------- the board's cell instances
\* A cell object is [id, i, j]: id is the object's identity, the number of
\* cell objects knownCells had been given when this one was made.

DigitChars == <<"0", "1", "2", "3", "4", "5", "6", "7", "8", "9">>

\* Number.prototype.toString of an integer, as its sequence of characters.
RECURSIVE numberToString(_)
numberToString(n) ==
    IF n < 0 THEN <<"-">> \o numberToString(-n)
    ELSE IF n < 10 THEN <<DigitChars[n + 1]>>
    ELSE numberToString(n \div 10) \o <<DigitChars[(n % 10) + 1]>>

\* board.ts:37  [i, j].toString()
arrayToString(i, j) == numberToString(i) \o <<",">> \o numberToString(j)

\* getCanonicalCell that stores a new object on every call.
Board_getCanonicalCellAlwaysSets(board, cell) ==
    LET key == arrayToString(cell.i, cell.j)
        known == RectSet(board.knownCells, key,
                         [id |-> board.allocated, i |-> cell.i, j |-> cell.j])
    IN  [knownCells |-> known, allocated |-> board.allocated + 1,
         cell |-> known[key]]

\* board.ts:35-42 on the board [knownCells, allocated]: the board it leaves
\* and the object it returns.
Board_getCanonicalCell(board, cell) ==
    LET key == arrayToString(cell.i, cell.j)
        has == key \in DOMAIN board.knownCells
        known == IF has THEN board.knownCells
                 ELSE RectSet(board.knownCells, key,
                              [id |-> board.allocated, i |-> cell.i, j |-> cell.j])
    IN  [knownCells |-> known,
         allocated |-> IF has THEN board.allocated ELSE board.allocated + 1,
         cell |-> known[key]]

\* board.ts:44-49
Board_getCellForPoint(board, point) ==
    Board_getCanonicalCell(board, [i |-> point.lat \div TILE_DEGREES,
                                   j |-> point.lng \div TILE_DEGREES])

\* The loops of getCellsNearPoint with j outside and i inside.
RECURSIVE Board_nearLoopColumnMajor(_, _, _, _)
Board_nearLoopColumnMajor(board, originCell, n, resultCells) ==
    LET r == NEIGHBORHOOD_SIZE
        side == 2 * r + 1
    IN  IF n > side * side
        THEN [knownCells |-> board.knownCells, allocated |-> board.allocated,
              cells |-> resultCells]
        ELSE LET c == Board_getCanonicalCell(board,
                          [i |-> originCell.i + ((n - 1) % side) - r,
                           j |-> originCell.j + ((n - 1) \div side) - r])
             IN  IF Evaluated(c)
                 THEN Board_nearLoopColumnMajor(
                          [knownCells |-> c.knownCells, allocated |-> c.allocated],
                          originCell, n + 1, Append(resultCells, c.cell))
                 ELSE c

\* board.ts:62-79, the n-th pass of the inner loop's body onwards: i is the
\* outer loop's variable, j the inner loop's.
RECURSIVE Board_nearLoop(_, _, _, _)
Board_nearLoop(board, originCell, n, resultCells) ==
    LET r == NEIGHBORHOOD_SIZE
        side == 2 * r + 1
    IN  IF n > side * side
        THEN [knownCells |-> board.knownCells, allocated |-> board.allocated,
              cells |-> resultCells]
        ELSE LET c == Board_getCanonicalCell(board,
                          [i |-> originCell.i + ((n - 1) \div side) - r,
                           j |-> originCell.j + ((n - 1) % side) - r])
             IN  IF Evaluated(c)
                 THEN Board_nearLoop(
                          [knownCells |-> c.knownCells, allocated |-> c.allocated],
                          originCell, n + 1, Append(resultCells, c.cell))
                 ELSE c

\* board.ts:59-81
Board_getCellsNearPoint(board, point) ==
    LET origin == Board_getCellForPoint(board, point)
    IN  Board_nearLoop([knownCells |-> origin.knownCells,
                        allocated |-> origin.allocated],
                       origin.cell, 1, <<>>)

\* The points the board is asked about: two of them in one cell, and cells on
\* both sides of zero.
BoardPoints ==
    {[lat |-> 0, lng |-> 0], [lat |-> 1, lng |-> 1],
     [lat |-> -1, lng |-> 0], [lat |-> -3, lng |-> -1]}

\* The (i, j) a call on point asks for at the n-th place of its result.
RequestedPair(op, point, n) ==
    LET r == NEIGHBORHOOD_SIZE
        side == 2 * r + 1
        oi == point.lat \div TILE_DEGREES
        oj == point.lng \div TILE_DEGREES
    IN  IF op = "getCellForPoint" THEN <<oi, oj>>
        ELSE <<oi + ((n - 1) \div side) - r, oj + ((n - 1) % side) - r>>

BoardReturns(op, point, result, cells) ==
    /\ knownCells' = result.knownCells
    /\ allocated' = result.allocated
    /\ handedOut' = handedOut \cup
            {[pair |-> RequestedPair(op, point, n), cell |-> cells[n]] :
                n \in DOMAIN cells}
    /\ boardReturn' = [op |-> op, point |-> point, cells |-> cells]
    /\ UNCHANGED <<playerWallet, cacheStates, activeCacheRects, playerMarker,
                   movementHistory, localStorage, uncaught, lastOp,
                   coinsSpawned, spawnLog, evictedCoins, restoredKeys,
                   spawnTrial, boardCalls>>

\* A call of the public method getCellForPoint (board.ts:61 is a caller).
CallGetCellForPoint(point) ==
    LET result == Board_getCellForPoint(
                      [knownCells |-> knownCells, allocated |-> allocated], point)
    IN  BoardReturns("getCellForPoint", point, result, <<result.cell>>)

\* A call of board.getCellsNearPoint (main.ts:595 is its caller).
CallGetCellsNearPoint(point) ==
    LET result == Board_getCellsNearPoint(
                      [knownCells |-> knownCells, allocated |-> allocated], point)
    IN  BoardReturns("getCellsNearPoint", point, result, result.cells)

BoardNext ==
    \/ \E point \in BoardPoints : CallGetCellForPoint(point)
    \/ \E point \in BoardPoints : CallGetCellsNearPoint(point)

\* One Board, asked for cells in any order.
SpecBoard == Init /\ [][BoardNext]_vars

\* ------------------------------------------- the spawn test in doubles
\* luck() returns a float, and the spawn test and the coin count are computed
\* in IEEE 754 doubles (main.ts:581, 616).  A double is [e, h, m, l]: the
\* 53-bit significand M = h * 2^40 + m * 2^20 + l, in three limbs, and the
\* value M * 2^(e - 52); h is in 4096..8191 for a normal number and the three
\* limbs are 0 for zero.

\* 2^20, the base of the limbs.
LimbBase == 1048576

\* 2^19: a product h * 2^40 + ... with h from here on has 60 bits, else 59.
SixtyBits == 524288

\* main.ts:382, the double nearest to 0.1: 0x1.999999999999ap-4.
SpawnProbabilityDouble == [e |-> -4, h |-> 6553, m |-> 629145, l |-> 629146]

DoubleZero == [e |-> -4, h |-> 0, m |-> 0, l |-> 0]

IsZero(x) == x.h = 0 /\ x.m = 0 /\ x.l = 0

\* x < y on non-negative doubles
DoubleLess(x, y) ==
    IF IsZero(y) THEN FALSE
    ELSE IF IsZero(x) THEN TRUE
    ELSE \/ x.e < y.e
         \/ /\ x.e = y.e
            /\ \/ x.h < y.h
               \/ x.h = y.h /\ x.m < y.m
               \/ x.h = y.h /\ x.m = y.m /\ x.l < y.l

\* x * 100 with the exact product cut off at 53 bits instead of rounded.
DoubleTimes100Truncates(x) ==
    LET l100 == x.l * 100
        m100 == x.m * 100 + l100 \div LimbBase
        h100 == x.h * 100 + m100 \div LimbBase
        pl == l100 % LimbBase
        unit == IF h100 >= SixtyBits THEN 128 ELSE 64
    IN  [e |-> x.e, h |-> h100, m |-> m100 % LimbBase, l |-> pl - (pl % unit)]

\* x * 100 in doubles: the exact product M * 100, of 59 or 60 bits, rounded
\* to 53 bits, to the nearest and to even on a tie.  The result keeps the
\* unit 2^(e - 52) of x, so its h may have up to 20 bits.
DoubleTimes100(x) ==
    LET l100 == x.l * 100
        m100 == x.m * 100 + l100 \div LimbBase
        h100 == x.h * 100 + m100 \div LimbBase
        pm == m100 % LimbBase
        pl == l100 % LimbBase
        unit == IF h100 >= SixtyBits THEN 128 ELSE 64
        rem == pl % unit
        odd == (pl \div unit) % 2 = 1
        up == rem * 2 > unit \/ (rem * 2 = unit /\ odd)
        rl == pl - rem + (IF up THEN unit ELSE 0)
        rm == pm + rl \div LimbBase
    IN  [e |-> x.e,
         h |-> h100 + rm \div LimbBase,
         m |-> rm % LimbBase,
         l |-> rl % LimbBase]

\* Math.floor of a non-negative double below 2^31 with e <= 12:
\* (h * 2^40 + ...) * 2^(e - 52) has the integer part h div 2^(12 - e).
MathFloor(x) == x.h \div (2 ^ (12 - x.e))

\* main.ts:579-583 and 614-619 for a cell that has no store entry and the luck
\* x: whether it spawns, and the coins of the cache createNewCache makes.
SpawnTest(x) ==
    LET spawns == DoubleLess(x, SpawnProbabilityDouble)
        pointValue == MathFloor(DoubleTimes100(x))
    IN  [tried |-> TRUE,
         luck |-> x,
         spawned |-> spawns,
         coins |-> IF spawns
                   THEN createNewCache(getCellForPoint(OAKES_CLASSROOM), pointValue).coins
                   ELSE <<>>]

\* The binades of the luck values tried: [2^e, 2^(e+1)).
SampleExponents == -6..-4

\* Zero, the doubles at both ends of each binade, and the doubles on both
\* sides of the threshold.
LuckSamples ==
    {DoubleZero}
    \cup {[e |-> e, h |-> 4096, m |-> 0, l |-> d] :
             e \in SampleExponents, d \in 0..MaxUlps}
    \cup {[e |-> e, h |-> 8191, m |-> LimbBase - 1, l |-> LimbBase - 1 - d] :
             e \in SampleExponents, d \in 0..MaxUlps}
    \cup {[SpawnProbabilityDouble EXCEPT !.l = @ + d] : d \in (-MaxUlps)..MaxUlps}

\* The spawn test of a refresh on a cell without entry whose luck is x.
TrySpawn(x) ==
    /\ spawnTrial' = SpawnTest(x)
    /\ UNCHANGED <<playerWallet, cacheStates, activeCacheRects, playerMarker,
                   movementHistory, localStorage, uncaught, lastOp,
                   coinsSpawned, spawnLog, evictedCoins, restoredKeys,
                   boardCalls>>
    /\ UNCHANGED boardVars

LuckNext == \E x \in LuckSamples : TrySpawn(x)

\* The spawn test on luck values of any order.
SpecLuck == Init /\ [][LuckNext]_vars

\* ----------------------------------------------------------------- claims

RECURSIVE StoredCoinCount(_, _)
StoredCoinCount(store, n) ==
    IF n = 0 THEN 0 ELSE StoredCoinCount(store, n - 1) + Len(store[n].v)

\* The coin sequences spawnCache has created for a key.
SpawnedFor(key) == {entry.coins : entry \in spawnLog[key]}

\* Every coin spawnCache has ever created.
SpawnedCoins == UNION {UNION {Range(coins) : coins \in SpawnedFor(key)} :
                         key \in DOMAIN spawnLog}

\* The places that hold coin: <<0, n>> is position n of the wallet, <<e, n>>
\* position n of the e-th store entry.
Holders(coin) ==
    {<<0, n>> : n \in {m \in DOMAIN playerWallet : playerWallet[m] = coin}}
    \cup UNION {{<<e, n>> :
                    n \in {m \in DOMAIN cacheStates[e].v : cacheStates[e].v[m] = coin}} :
                e \in DOMAIN cacheStates}

\* The cells a refresh at the given point looks at.
VisibleKeys(point) == Range(getVisibleCells(point))

\* C1: under movement, collect and deposit, the wallet length plus the lengths
\* of all store entries, rendered or not, equals the number of coins spawnCache
\* has created so far.
C1_Conservation ==
    Len(playerWallet) + StoredCoinCount(cacheStates, Len(cacheStates)) = coinsSpawned

\* C1 witness: coins have been spawned, one is in the wallet and another sits
\* in a store entry whose cache is not rendered.
C1_Witness ==
    /\ coinsSpawned > 0
    /\ Len(playerWallet) > 0
    /\ \E key \in MapKeys(cacheStates) \ DOMAIN activeCacheRects :
            Len(MapGet(cacheStates, key)) > 0

\* C2 (as claimed): every coin ever spawned is held by exactly one container,
\* a store entry or the wallet, after every operation including reset.
C2_ExactlyOneHolder ==
    \A coin \in SpawnedCoins : Cardinality(Holders(coin)) = 1

\* C3: the live cache of every rendered cell has the coin sequence the store
\* holds under that cell's key.
C3_StoreMatchesRendered ==
    \A key \in DOMAIN activeCacheRects :
        /\ MapHas(cacheStates, key)
        /\ activeCacheRects[key].coins = MapGet(cacheStates, key)

\* C3 witness: after a deposit a rendered cache holds something other than
\* what it spawned with, in the order the store has it.
C3_Witness ==
    /\ lastOp = "deposit"
    /\ \E key \in DOMAIN activeCacheRects \cap DOMAIN spawnLog :
            /\ activeCacheRects[key].coins \notin SpawnedFor(key)
            /\ Len(activeCacheRects[key].coins) > 0

\* C4: a cache whose rendering was removed with coin sequence S is rendered
\* with exactly S when a later handler renders it again.
C4_MementoRoundTrip ==
    [][\A key \in DOMAIN evictedCoins :
          (key \notin DOMAIN activeCacheRects /\ key \in DOMAIN activeCacheRects')
              => activeCacheRects'[key].coins = evictedCoins[key]]_vars

\* C4 witness: a move has rendered again a cache that spawned N > 0 coins and
\* had one collected before it left the window: it holds the N-1 others.
C4_Witness ==
    /\ lastOp \in {"move", "sensor"}
    /\ \E key \in restoredKeys :
          \E original \in SpawnedFor(key) :
            /\ Len(original) > 0
            /\ activeCacheRects[key].coins = SubSeq(original, 1, Len(original) - 1)


\* What saveGameState followed by loadGameState makes of the current state.
SavedAndLoaded ==
    loadGameState(setItem(saveGameState(playerWallet, cacheStates,
                                        movementHistory)),
                  spawnLog)

\* C5 (as claimed): in every reachable state, saveGameState followed by
\* loadGameState reproduces the wallet, the key set and the coin sequence of
\* every store entry, and the movement history.
C5_PersistenceRoundTrip ==
    LET loaded == SavedAndLoaded
    IN  /\ loaded.playerWallet = playerWallet
        /\ MapKeys(loaded.st.cacheStates) = MapKeys(cacheStates)
        /\ \A key \in MapKeys(cacheStates) :
                MapGet(loaded.st.cacheStates, key) = MapGet(cacheStates, key)
        /\ loaded.movementHistory = movementHistory

\* The cells of the window around a point whose luck lets them spawn.
SpawnableKeys(point) ==
    {key \in VisibleKeys(point) : luck(key) < CACHE_SPAWN_PROBABILITY}

\* C5 (amended): saveGameState followed by loadGameState reproduces the wallet,
\* the movement history and the coin sequence of every store entry; the loaded
\* store has the keys of the saved one and those of the spawnable cells around
\* the last history position, which the refresh ending loadGameState adds; the
\* key sets are equal once a handler has run in the session.
C5_RoundTripUpToRefresh ==
    LET loaded == SavedAndLoaded
    IN  /\ loaded.playerWallet = playerWallet
        /\ loaded.movementHistory = movementHistory
        /\ \A key \in MapKeys(cacheStates) :
                /\ MapHas(loaded.st.cacheStates, key)
                /\ MapGet(loaded.st.cacheStates, key) = MapGet(cacheStates, key)
        /\ MapKeys(loaded.st.cacheStates) =
                MapKeys(cacheStates) \cup SpawnableKeys(playerMarker)
        /\ lastOp \in {"move", "sensor", "collect", "deposit", "reset"} =>
                MapKeys(loaded.st.cacheStates) = MapKeys(cacheStates)

\* C5 witness: a state with a collected coin in the wallet, a history of several
\* points, a store entry that differs from what its cell spawned and a store
\* entry that is not rendered.
C5_Witness ==
    /\ Len(playerWallet) > 0
    /\ Len(movementHistory) > 1
    /\ \E key \in MapKeys(cacheStates) : MapGet(cacheStates, key) \notin SpawnedFor(key)
    /\ MapKeys(cacheStates) \ DOMAIN activeCacheRects /= {}

\* C6 (as claimed): after each movement, sensor update, collect, deposit and
\* reset the persisted snapshot equals the in-memory history, store and wallet.
C6_SnapshotAfterEveryOperation ==
    lastOp \in {"move", "sensor", "collect", "deposit", "reset"}
        => localStorage =
              setItem(saveGameState(playerWallet, cacheStates, movementHistory))

\* C7: after a confirmed reset the wallet is empty, the history is the start
\* location alone, the player is at the start location, nothing outside the
\* start location's window is rendered, and the snapshot holds an empty wallet
\* and a history of length 1.
C7_ResetPostcondition ==
    lastOp = "reset" =>
        /\ playerWallet = <<>>
        /\ movementHistory = <<OAKES_CLASSROOM>>
        /\ playerMarker = OAKES_CLASSROOM
        /\ DOMAIN activeCacheRects \subseteq VisibleKeys(OAKES_CLASSROOM)
        /\ localStorage /= <<>>
        /\ localStorage[1].playerWallet = <<>>
        /\ Len(localStorage[1].movementHistory) = 1

\* C7 witness: a reset that found coins in the wallet (a spawned coin is held
\* nowhere now) and left a known cache outside the start window unrendered.
C7_Witness ==
    /\ lastOp = "reset"
    /\ \E coin \in SpawnedCoins : Holders(coin) = {}
    /\ MapKeys(cacheStates) \ DOMAIN activeCacheRects /= {}

\* C8 (as claimed): after a confirmed reset every store entry holds exactly the
\* coins its cell spawned, in spawn order.
C8_ResetRestoresOriginal ==
    lastOp = "reset" =>
        \A e \in DOMAIN cacheStates :
            SpawnedFor(cacheStates[e].k) = {cacheStates[e].v}

\* C9 (as claimed): a confirmed reset right after a confirmed reset changes
\* nothing of wallet, store, rendered set, history, position and snapshot.
C9_ResetIdempotent ==
    [][(lastOp = "reset" /\ lastOp' = "reset") =>
          /\ playerWallet' = playerWallet
          /\ cacheStates' = cacheStates
          /\ DOMAIN activeCacheRects' = DOMAIN activeCacheRects
          /\ movementHistory' = movementHistory
          /\ playerMarker' = playerMarker
          /\ localStorage' = localStorage]_vars

\* C10: whatever the session and the path, spawnCache creates one and the same
\* coin sequence for a key, and a cell that has spawned in any fresh session has
\* its store entry whenever a refresh has looked at it.
C10_Determinism ==
    /\ \A key \in DOMAIN spawnLog : Cardinality(SpawnedFor(key)) = 1
    /\ lastOp \in {"move", "sensor", "collect", "deposit"} =>
          \A key \in VisibleKeys(playerMarker) \cap DOMAIN spawnLog :
              MapHas(cacheStates, key)

\* C10 witness: a cell with coins has spawned in two sessions at different
\* ranks, that is after different cells had become known, and the current
\* session has just met it by moving.
C10_Witness ==
    /\ lastOp \in {"move", "sensor"}
    /\ \E key \in DOMAIN activeCacheRects \ restoredKeys :
          \E first \in spawnLog[key], second \in spawnLog[key] :
            /\ first.rank /= second.rank
            /\ Len(first.coins) > 0

\* C11 (as claimed): a load that finds a present but malformed item raises no
\* error and leaves the session at its defaults: start location, empty wallet,
\* empty store, history of length 1.
C11_MalformedIsNoSavedState ==
    (lastOp = "load" /\ localStorage /= <<>> /\ localStorage[1] \in MalformedItems) =>
        /\ ~uncaught
        /\ playerWallet = <<>>
        /\ cacheStates = <<>>
        /\ movementHistory = <<OAKES_CLASSROOM>>
        /\ playerMarker = OAKES_CLASSROOM

\* C12: a collect on a rendered cache with no coins and a deposit with an empty
\* wallet change nothing: wallet, store, rendered caches, history, snapshot and
\* the error flag are as before.
C12_DegenerateNoOps ==
    \A cellKey \in DOMAIN activeCacheRects :
        /\ Len(activeCacheRects[cellKey].coins) = 0 =>
                ~ENABLED (collect(cellKey) /\ vars' /= vars)
        /\ Len(playerWallet) = 0 =>
                ~ENABLED (deposit(cellKey) /\ vars' /= vars)

\* C12 witness: a move has rendered a cache that holds no coins while the
\* wallet is empty, and the snapshot is not the one a save would write now.
C12_Witness ==
    /\ lastOp \in {"move", "sensor"}
    /\ Len(playerWallet) = 0
    /\ \E cellKey \in DOMAIN activeCacheRects :
            Len(activeCacheRects[cellKey].coins) = 0
    /\ localStorage /=
            setItem(saveGameState(playerWallet, cacheStates, movementHistory))

\* The number of coins and the coin sequence the spawn rule gives a key.
SpawnCount(key) == (luck(key) * 100) \div LuckScale

SpawnSequence(key) ==
    [n \in 1..SpawnCount(key) |-> Coin([i |-> key[1], j |-> key[2]], n - 1)]

RECURSIVE SumSpawnCount(_)
SumSpawnCount(keys) ==
    IF keys = {} THEN 0
    ELSE LET key == CHOOSE k \in keys : TRUE
         IN  SpawnCount(key) + SumSpawnCount(keys \ {key})

\* C13: a handler that ends with a refresh (move, sensor update, reset) spawns
\* exactly the visible cells whose luck is below the threshold and that have no
\* store entry; each gets floor(luck * 100) coins of its own cell with serials
\* 0.. in order, in the store and in its rendered cache, and nothing else is
\* spawned.
C13_SpawnRule ==
    [][lastOp' \in {"move", "sensor", "reset"} =>
          LET due == {key \in VisibleKeys(playerMarker') :
                        /\ luck(key) < CACHE_SPAWN_PROBABILITY
                        /\ ~MapHas(cacheStates, key)}
          IN  /\ MapKeys(cacheStates') = MapKeys(cacheStates) \cup due
              /\ \A key \in due :
                    /\ MapGet(cacheStates', key) = SpawnSequence(key)
                    /\ activeCacheRects'[key].coins = SpawnSequence(key)
              /\ coinsSpawned' = coinsSpawned + SumSpawnCount(due)]_vars

\* C13 witness: the first move of a session has spawned the two-coin cache of
\* cell 0:0 while the cell whose luck is exactly the threshold is in the window
\* and has no entry.
C13_Witness ==
    /\ lastOp = "move"
    /\ Len(movementHistory) = 2
    /\ coinsSpawned = 2
    /\ MapHas(cacheStates, <<0, 0>>)
    /\ MapGet(cacheStates, <<0, 0>>) = SpawnSequence(<<0, 0>>)
    /\ <<1, 0>> \in VisibleKeys(playerMarker)
    /\ luck(<<1, 0>>) = CACHE_SPAWN_PROBABILITY
    /\ ~MapHas(cacheStates, <<1, 0>>)

\* C14: on one Board, every request for a given (i, j), by getCellForPoint or
\* by getCellsNearPoint, returns the same cell object, whose i and j are the
\* requested ones; different pairs get different objects; knownCells holds at
\* most one object per pair and never replaces an object it holds.
C14_Canonicalization ==
    [][/\ \A a, b \in handedOut' : (a.pair = b.pair) <=> (a.cell.id = b.cell.id)
       /\ \A a \in handedOut' : <<a.cell.i, a.cell.j>> = a.pair
       /\ \A k1, k2 \in DOMAIN knownCells' :
              (<<knownCells'[k1].i, knownCells'[k1].j>> =
               <<knownCells'[k2].i, knownCells'[k2].j>>) => k1 = k2
       /\ \A key \in DOMAIN knownCells :
              key \in DOMAIN knownCells' /\ knownCells'[key] = knownCells[key]
      ]_vars

\* getCellsNearPoint has returned, among new objects, an object that an
\* earlier getCellForPoint call had returned for the same pair.
C14_Witness ==
    /\ boardReturn.op = "getCellsNearPoint"
    /\ \E n \in DOMAIN boardReturn.cells :
           /\ boardReturn.cells[n].id = 0
           /\ boardReturn.cells[n].i /= boardReturn.point.lat \div TILE_DEGREES
    /\ allocated > (2 * NEIGHBORHOOD_SIZE + 1) * (2 * NEIGHBORHOOD_SIZE + 1)

\* C15: for radius r and origin cell (oi, oj), what getCellsNearPoint returns
\* has (2r+1)^2 cells, no cell twice, its cells are exactly the (i, j) with
\* oi-r <= i <= oi+r and oj-r <= j <= oj+r, in row-major order (i outer, j
\* inner), and each is the object knownCells holds for its pair.
C15_VisibilityWindow ==
    boardReturn.op = "getCellsNearPoint" =>
        LET cells == boardReturn.cells
            r == NEIGHBORHOOD_SIZE
            side == 2 * r + 1
            oi == boardReturn.point.lat \div TILE_DEGREES
            oj == boardReturn.point.lng \div TILE_DEGREES
        IN  /\ Len(cells) = side * side
            /\ \A m, n \in DOMAIN cells :
                   m /= n => /\ cells[m].id /= cells[n].id
                             /\ <<cells[m].i, cells[m].j>> /= <<cells[n].i, cells[n].j>>
            /\ {<<cells[n].i, cells[n].j>> : n \in DOMAIN cells} =
                   ((oi - r)..(oi + r)) \X ((oj - r)..(oj + r))
            /\ \A n \in DOMAIN cells :
                   /\ cells[n].i = oi - r + ((n - 1) \div side)
                   /\ cells[n].j = oj - r + ((n - 1) % side)
                   /\ arrayToString(cells[n].i, cells[n].j) \in DOMAIN knownCells
                   /\ knownCells[arrayToString(cells[n].i, cells[n].j)] = cells[n]
            /\ [n \in DOMAIN cells |-> [i |-> cells[n].i, j |-> cells[n].j]] =
                   getCellsNearPoint(boardReturn.point)

\* getCellsNearPoint has returned the window of a cell with negative
\* coordinates, some of whose cells the board already knew.
C15_Witness ==
    /\ boardReturn.op = "getCellsNearPoint"
    /\ boardReturn.point.lat < 0
    /\ boardReturn.point.lng < 0
    /\ \E m, n \in DOMAIN boardReturn.cells :
           m < n /\ boardReturn.cells[m].id > boardReturn.cells[n].id

\* C16: after every handler that ends with a refresh (move, sensor update,
\* reset, load), the rendered keys are exactly the store keys inside the
\* player's window; so every rendered cell has a store entry, and every key
\* restoreCache rendered in that handler is a store key.
C16_RenderedIsStoreInWindow ==
    lastOp \in {"move", "sensor", "reset", "load"} =>
        /\ DOMAIN activeCacheRects =
               MapKeys(cacheStates) \cap VisibleKeys(playerMarker)
        /\ \A key \in DOMAIN activeCacheRects : MapHas(cacheStates, key)
        /\ restoredKeys \subseteq MapKeys(cacheStates)

\* A refresh has restored a cache while another store entry lies outside the
\* window and is not rendered.
C16_Witness ==
    /\ lastOp \in {"move", "sensor", "reset", "load"}
    /\ restoredKeys /= {}
    /\ \E key \in MapKeys(cacheStates) :
           key \notin VisibleKeys(playerMarker) /\ key \notin DOMAIN activeCacheRects

\* C17: a move, sensor update, collect or deposit removes no key from
\* cacheStates and spawns nothing for a key that has an entry; a cell whose
\* entry is the empty sequence and that becomes rendered is rendered by
\* restoreCache as an empty cache, and its entry stays empty.
C17_EntriesPermanent ==
    [][lastOp' \in {"move", "sensor", "collect", "deposit"} =>
          /\ MapKeys(cacheStates) \subseteq MapKeys(cacheStates')
          /\ \A key \in MapKeys(cacheStates) :
                /\ key \in DOMAIN spawnLog' <=> key \in DOMAIN spawnLog
                /\ key \in DOMAIN spawnLog => spawnLog'[key] = spawnLog[key]
                /\ (/\ MapGet(cacheStates, key) = <<>>
                    /\ key \notin DOMAIN activeCacheRects
                    /\ key \in DOMAIN activeCacheRects')
                   => /\ activeCacheRects'[key].coins = <<>>
                      /\ MapGet(cacheStates', key) = <<>>
                      /\ key \in restoredKeys']_vars

\* A movement has rendered again, empty, a cache that spawned with coins and
\* had all of them collected.
C17_Witness ==
    /\ lastOp \in {"move", "sensor"}
    /\ \E key \in restoredKeys :
           /\ activeCacheRects[key].coins = <<>>
           /\ MapGet(cacheStates, key) = <<>>
           /\ \E original \in SpawnedFor(key) : Len(original) > 0

\* C18: a movement (button or sensor) appends exactly one position, the new
\* one, to the movement history, leaves the wallet as it is and every entry
\* cacheStates had, evicted or not, with its coin sequence at its place; what
\* it adds to the store are entries of cells of the new window that spawn.
C18_MovementFrame ==
    [][lastOp' \in {"move", "sensor"} =>
          /\ movementHistory' = Append(movementHistory, playerMarker')
          /\ playerWallet' = playerWallet
          /\ Len(cacheStates') >= Len(cacheStates)
          /\ SubSeq(cacheStates', 1, Len(cacheStates)) = cacheStates
          /\ \A n \in (Len(cacheStates) + 1)..Len(cacheStates') :
                /\ cacheStates'[n].k \in VisibleKeys(playerMarker')
                /\ luck(cacheStates'[n].k) < CACHE_SPAWN_PROBABILITY
                /\ cacheStates'[n].v = SpawnSequence(cacheStates'[n].k)
          /\ \A key \in (DOMAIN activeCacheRects) \ (DOMAIN activeCacheRects') :
                MapGet(cacheStates', key) = activeCacheRects[key].coins]_vars

\* A sensor update, made with a coin in the wallet, has evicted a cache that
\* still holds a coin and has spawned the cache of another cell.
C18_Witness ==
    /\ lastOp = "sensor"
    /\ Len(playerWallet) > 0
    /\ Len(movementHistory) > 2
    /\ \E key \in DOMAIN evictedCoins :
           /\ key \notin DOMAIN activeCacheRects
           /\ Len(MapGet(cacheStates, key)) > 0
    /\ Len(cacheStates) > 1
    /\ cacheStates[Len(cacheStates)].k \in (DOMAIN activeCacheRects) \ restoredKeys

\* C19: collect takes the last coin of the cache's sequence and puts it at the
\* end of the wallet; deposit takes the last coin of the wallet and puts it at
\* the end of the cache's sequence; in the state either of them leaves, the
\* other one on the same cache gives back the wallet and the store entry (and
\* the rendered sequence) the first one found.
C19_LIFO ==
    [][/\ lastOp' = "collect" =>
            \E key \in DOMAIN activeCacheRects :
            \E wallet \in {playerWallet} :
            \E coins \in {activeCacheRects[key].coins} :
                /\ Len(coins) > 0
                /\ coins = MapGet(cacheStates, key)
                /\ activeCacheRects'[key].coins = SubSeq(coins, 1, Len(coins) - 1)
                /\ MapGet(cacheStates', key) = SubSeq(coins, 1, Len(coins) - 1)
                /\ playerWallet' = Append(wallet, coins[Len(coins)])
                /\ (ENABLED (/\ deposit(key)
                             /\ playerWallet' = wallet
                             /\ MapGet(cacheStates', key) = coins
                             /\ activeCacheRects'[key].coins = coins))'
       /\ lastOp' = "deposit" =>
            \E key \in DOMAIN activeCacheRects :
            \E wallet \in {playerWallet} :
            \E coins \in {activeCacheRects[key].coins} :
                /\ Len(wallet) > 0
                /\ coins = MapGet(cacheStates, key)
                /\ playerWallet' = SubSeq(wallet, 1, Len(wallet) - 1)
                /\ activeCacheRects'[key].coins = Append(coins, wallet[Len(wallet)])
                /\ MapGet(cacheStates', key) = Append(coins, wallet[Len(wallet)])
                /\ (ENABLED (/\ collect(key)
                             /\ playerWallet' = wallet
                             /\ MapGet(cacheStates', key) = coins
                             /\ activeCacheRects'[key].coins = coins))'
      ]_vars

\* Both coins of a cache were collected and a deposit has put one back: the
\* cache holds the coin collected last and the wallet the one collected first.
C19_Witness ==
    /\ lastOp = "deposit"
    /\ \E key \in DOMAIN activeCacheRects \cap DOMAIN spawnLog :
       \E original \in SpawnedFor(key) :
           /\ Len(original) = 2
           /\ activeCacheRects[key].coins = <<original[1]>>
           /\ MapGet(cacheStates, key) = <<original[1]>>
           /\ playerWallet = <<original[2]>>

\* C20 (as claimed): when a handler that calls saveGameState (collect, deposit,
\* reset) has finished, the snapshot it wrote equals the in-memory wallet,
\* cacheStates and movement history: the handler changes none of them after
\* its save.
C20_SaveAfterMutation ==
    lastOp \in {"collect", "deposit", "reset"} =>
        /\ localStorage /= <<>>
        /\ localStorage[1].playerWallet =
               saveGameState(playerWallet, cacheStates, movementHistory).playerWallet
        /\ localStorage[1].cacheStates =
               saveGameState(playerWallet, cacheStates, movementHistory).cacheStates
        /\ localStorage[1].movementHistory =
               saveGameState(playerWallet, cacheStates, movementHistory).movementHistory

\* C21: in every reachable state of a session with moves, sensor updates,
\* collect, deposit, reset and reload, the movement history is not empty, its
\* first entry is the start location and the player's position is its last
\* entry.
C21_PositionIsLastHistoryEntry ==
    /\ Len(movementHistory) > 0
    /\ movementHistory[1] = OAKES_CLASSROOM
    /\ playerMarker = movementHistory[Len(movementHistory)]

\* A load has placed the player away from the start location, at the end of
\* the history it restored.
C21_Witness ==
    /\ lastOp = "load"
    /\ Len(movementHistory) > 1
    /\ playerMarker /= OAKES_CLASSROOM
    /\ playerMarker = movementHistory[Len(movementHistory)]

\* The coins the wallet and the store entries hold.
HeldCoins ==
    Range(playerWallet) \cup
    UNION {Range(cacheStates[e].v) : e \in DOMAIN cacheStates}

\* C22: in every state of sessions that are ended at any point and started
\* again from the last snapshot written, then continued, no coin (spawn cell,
\* serial) is at more than one place of the wallet and the store entries.
C22_ReloadNeverDuplicates ==
    \A coin \in HeldCoins : Cardinality(Holders(coin)) = 1

\* After a load, with a loaded coin in the wallet whose cell has its entry
\* from the snapshot, a movement has spawned a cell the snapshot did not have.
C22_Witness ==
    /\ lastOp \in {"move", "sensor"}
    /\ Len(playerWallet) > 0
    /\ \A n \in DOMAIN playerWallet :
           /\ cellToString(playerWallet[n].spawnLocation) \notin DOMAIN spawnLog
           /\ MapHas(cacheStates, cellToString(playerWallet[n].spawnLocation))
    /\ \E key \in DOMAIN spawnLog :
           MapHas(cacheStates, key) /\ key \in DOMAIN activeCacheRects

\* C23 (as claimed): every spawned cache starts with between 0 and 9 coins and
\* every coin serial created is in 0..8.
C23_SpawnedSizeBound ==
    (spawnTrial.tried /\ spawnTrial.spawned) =>
        /\ Len(spawnTrial.coins) \in 0..9
        /\ \A n \in DOMAIN spawnTrial.coins : spawnTrial.coins[n].serial \in 0..8

\* C23 (amended): every spawned cache starts with between 0 and 10 coins, whose
\* serials are 0 .. count-1, so at most 9; it has 10 coins exactly when its
\* luck is the largest double below the threshold, whose product with 100
\* rounds to 10; a luck of 0 spawns a cache with no coins.
C23_SpawnedSizeBoundInDoubles ==
    (spawnTrial.tried /\ spawnTrial.spawned) =>
        /\ Len(spawnTrial.coins) \in 0..10
        /\ \A n \in DOMAIN spawnTrial.coins : spawnTrial.coins[n].serial = n - 1
        /\ Len(spawnTrial.coins) = 10 <=>
               spawnTrial.luck = [SpawnProbabilityDouble EXCEPT !.l = @ - 1]
        /\ IsZero(spawnTrial.luck) => spawnTrial.coins = <<>>

\* The largest double below the threshold has spawned a cache of 10 coins.
C23_Witness ==
    /\ spawnTrial.tried
    /\ spawnTrial.spawned
    /\ DoubleLess(spawnTrial.luck, SpawnProbabilityDouble)
    /\ Len(spawnTrial.coins) = 10
    /\ spawnTrial.coins[10].serial = 9

\* C24 (as claimed): every refresh (by a move, a sensor update, a reset or a
\* load) runs its pass over the visible cells to the end, and every member of
\* board it calls on the way is a method Board provides.
C24_RefreshUsesBoardMethods ==
    lastOp \in {"move", "sensor", "reset", "load"} =>
        /\ ~uncaught
        /\ boardCalls \subseteq BoardMethods

====
